---------------------------- MODULE Spec2Model ----------------------------
(***************************************************************************)
(* Model of the SSE chatbot service (chatbot/chatbot_service_sse.py), the  *)
(* routing rules (chatbot/routing/route_rules.py) and the retriever        *)
(* (chatbot/retrieval/retriever.py).                                       *)
(*                                                                         *)
(* Python strings are sequences of one-character strings; an optional      *)
(* value (a JSON field that may be absent, an argument defaulting to None) *)
(* is NoArg or Some(v).                                                    *)
(***************************************************************************)
EXTENDS Integers, Sequences, FiniteSets, TLC

VARIABLES
    chatbot,        \* global chatbot: 0 is None, k > 0 the k-th RAGChatbot built
    is_warmed_up,   \* global is_warmed_up
    server,         \* "boot", "serving" or "crashed"
    pc,             \* position of every thread
    req,            \* the request a thread is handling
    resp,           \* the HTTP response of that request
    events,         \* the SSE events written to that request's stream
    fr,             \* the locals of the thread's current call
    requests,       \* HTTP requests received so far
    built,          \* RAGChatbot instances built so far
    encodeCalls,    \* calls of bot.retriever.embedder.encode
    genEmbedCalls,  \* calls of embedding_generator.generate_embedding
    searchCalls,    \* calls of client.query_points
    warmCalls,      \* calls of pre_warm_pipeline
    warmedBy,       \* what the call that set is_warmed_up had exercised
    harness         \* state of the unit-level drivers

vars == <<chatbot, is_warmed_up, server, pc, req, resp, events, fr, requests,
          built, encodeCalls, genEmbedCalls, searchCalls, warmCalls, warmedBy,
          harness>>

-----------------------------------------------------------------------------
(* Bounds *)

MaxRequests == 2
MaxWarmCalls == 4
MaxLen == 5
MaxBudget == 4
MaxRouteCalls == 3
MaxTopK == 2
MaxRetrieverCalls == 2

(* Program constants *)

DefaultChunkSize == 30
DefaultTopK == 5

-----------------------------------------------------------------------------
(* Python values *)

NoArg == [some |-> FALSE]
Some(v) == [some |-> TRUE, v |-> v]

\* `not x` for an optional string: None and "" are falsy
Falsy(x) == IF x.some THEN x.v = <<>> ELSE TRUE

IsSpace(c) == c = " "

RECURSIVE LStrip(_)
LStrip(s) ==
    IF s = <<>> THEN <<>>
    ELSE IF IsSpace(Head(s)) THEN LStrip(Tail(s)) ELSE s

RECURSIVE RStrip(_)
RStrip(s) ==
    IF s = <<>> THEN <<>>
    ELSE IF IsSpace(s[Len(s)]) THEN RStrip(SubSeq(s, 1, Len(s) - 1)) ELSE s

\* str.strip()
Strip(s) == RStrip(LStrip(s))

\* str.replace(old, new), old non-empty: leftmost non-overlapping occurrences
RECURSIVE StrReplace(_, _, _)
StrReplace(s, old, new) ==
    IF Len(s) < Len(old) THEN s
    ELSE IF SubSeq(s, 1, Len(old)) = old
         THEN new \o StrReplace(SubSeq(s, Len(old) + 1, Len(s)), old, new)
         ELSE <<Head(s)>> \o StrReplace(Tail(s), old, new)

\* str.split(sep) for a one-character separator: empty pieces are kept
RECURSIVE StrSplit(_, _)
StrSplit(s, sep) ==
    IF \A i \in 1..Len(s) : s[i] # sep THEN <<s>>
    ELSE LET i == CHOOSE j \in 1..Len(s) :
                      s[j] = sep /\ \A k \in 1..(j - 1) : s[k] # sep
         IN <<SubSeq(s, 1, i - 1)>> \o StrSplit(SubSeq(s, i + 1, Len(s)), sep)

-----------------------------------------------------------------------------
(* chunk_text *)

\* text.replace('? ', '?|').replace('! ', '!|').replace('. ', '.|').split('|')
Sentences(text) ==
    StrSplit(
        StrReplace(
            StrReplace(
                StrReplace(text, <<"?", " ">>, <<"?", "|">>),
                <<"!", " ">>, <<"!", "|">>),
            <<".", " ">>, <<".", "|">>),
        "|")

\* the for loop of chunk_text and the final yield; out is what was yielded
RECURSIVE ChunkLoop(_, _, _, _)
ChunkLoop(sentences, current_chunk, out, chunk_size) ==
    IF sentences = <<>>
    THEN IF Strip(current_chunk) # <<>>
         THEN Append(out, Strip(current_chunk))
         ELSE out
    ELSE LET sentence == Strip(Head(sentences))
             rest == Tail(sentences)
         IN IF sentence = <<>>
            THEN ChunkLoop(rest, current_chunk, out, chunk_size)
            ELSE IF current_chunk # <<>>
                    /\ Len(current_chunk) + Len(sentence) > chunk_size
                 THEN ChunkLoop(rest, sentence \o <<" ">>,
                                Append(out, current_chunk), chunk_size)
                 ELSE ChunkLoop(rest, current_chunk \o sentence \o <<" ">>,
                                out, chunk_size)

chunk_text(text, chunk_size) ==
    IF text = <<>> THEN <<>>
    ELSE ChunkLoop(Sentences(text), <<>>, <<>>, chunk_size)

-----------------------------------------------------------------------------
(* Retriever.retrieve *)

NoInt == [some |-> FALSE, v |-> 0]
NoFilter == [some |-> FALSE]

\* One hit of client.query_points(...).points becomes one document: content is
\* popped out of the payload, the rest of the payload is the metadata.
FormatHit(hit) ==
    [content |-> IF hit.content.some THEN hit.content.v ELSE <<>>,
     metadata |-> hit.payload,
     similarity_score |-> hit.score]

\* Filter(must=[FieldCondition(key, MatchValue(value)) ...]): the conjunction
\* of one exact-match condition per item of filter_by; None when filter_by is
\* None or empty
QueryFilter(filter_by) ==
    IF filter_by.some
    THEN IF filter_by.v # <<>> THEN [some |-> TRUE, must |-> filter_by.v]
         ELSE NoFilter
    ELSE NoFilter

\* The try block of retrieve. env is what the collaborators do during this
\* call: procOK, embedOK and searchOK say whether process_query,
\* generate_embedding and query_points return or raise, normalized and
\* keyword are process_query's outputs and points[k] is what query_points
\* returns for limit k. raised says that an exception left the block; the
\* result records, beside the docs, the calls that were made.
retrieve_try(query, k, filter_by, env) ==
    LET search_query == IF env.keyword # <<>> THEN env.keyword
                        ELSE env.normalized
        points == env.points[k]
        nothing == [raised |-> TRUE, docs |-> <<>>, embedCalls |-> 0,
                    searchCalls |-> 0, searchOK |-> FALSE, limit |-> NoInt,
                    search_query |-> <<>>, query_filter |-> NoFilter]
    IN  IF ~env.procOK THEN nothing
        ELSE IF ~env.embedOK
        THEN [nothing EXCEPT !.embedCalls = 1, !.search_query = search_query]
        ELSE IF ~env.searchOK
        THEN [nothing EXCEPT !.embedCalls = 1, !.search_query = search_query,
                             !.searchCalls = 1, !.limit = Some(k),
                             !.query_filter = QueryFilter(filter_by)]
        ELSE [raised |-> FALSE,
              docs |-> [i \in 1..Len(points) |-> FormatHit(points[i])],
              embedCalls |-> 1, searchCalls |-> 1, searchOK |-> TRUE,
              limit |-> Some(k), search_query |-> search_query,
              query_filter |-> QueryFilter(filter_by)]

\* retrieve_except letting the exception through
retrieve_except_Reraises(r) == r

\* except Exception as e: print; return []
retrieve_except(r) == [r EXCEPT !.raised = FALSE, !.docs = <<>>]

\* effective_k always taking the configured value
effective_k_IgnoresArgument(top_k, self_top_k) == self_top_k

\* k = top_k if top_k is not None else self.top_k
effective_k(top_k, self_top_k) == IF top_k.some THEN top_k.v ELSE self_top_k

retrieve(query, top_k, filter_by, self_top_k, env) ==
    IF query = <<>>
    THEN [raised |-> FALSE, docs |-> <<>>, embedCalls |-> 0,
          searchCalls |-> 0, searchOK |-> FALSE, limit |-> NoInt,
          search_query |-> <<>>, query_filter |-> NoFilter]
    ELSE LET r == retrieve_try(query, effective_k(top_k, self_top_k),
                               filter_by, env)
         IN  IF r.raised THEN retrieve_except(r) ELSE r

\* The collection: two stored points, best match first; the second has no
\* content field in its payload.
StoredPoints ==
    <<[content |-> Some(<<"x">>), payload |-> "company_a", score |-> 9],
      [content |-> NoArg, payload |-> "company_b", score |-> 7]>>

\* query_points returns the best min(limit, |collection|) points
PointsFor(k) ==
    IF k <= 0 THEN <<>>
    ELSE SubSeq(StoredPoints, 1, IF k < Len(StoredPoints) THEN k
                                  ELSE Len(StoredPoints))

\* the limits a search may be issued with
Limits == 0..(DefaultTopK + MaxTopK)

RetrieveEnvs ==
    [procOK : BOOLEAN, embedOK : BOOLEAN, searchOK : BOOLEAN,
     normalized : {<<"n">>}, keyword : {<<>>, <<"k">>},
     points : {[k \in Limits |-> PointsFor(k)],
               [k \in Limits |-> <<>>]}]

\* The try block of ingest_qa_pair. env says whether generate_embedding and
\* client.upsert return or raise; uuid is the value uuid.uuid4() gives this
\* call. points is what the call added to the collection.
ingest_try(question, answer, env, uuid) ==
    LET point == [id |-> uuid,
                  vector |-> question.v,
                  payload |-> [content |-> <<"Q">> \o question.v \o
                                           <<"A">> \o answer.v,
                               document_type |-> "Generated Q&A",
                               company |-> "General Knowledge",
                               source |-> "Gemini LLM",
                               question |-> question.v,
                               answer |-> answer.v]]
    IN  IF ~env.embedOK
        THEN [raised |-> TRUE, result |-> FALSE, embedCalls |-> 1,
              upsertCalls |-> 0, uuids |-> 0, points |-> <<>>]
        ELSE IF ~env.upsertOK
        THEN [raised |-> TRUE, result |-> FALSE, embedCalls |-> 1,
              upsertCalls |-> 1, uuids |-> 1, points |-> <<>>]
        ELSE [raised |-> FALSE, result |-> TRUE, embedCalls |-> 1,
              upsertCalls |-> 1, uuids |-> 1, points |-> <<point>>]

\* ingest_except reporting success after a failure
ingest_except_ReturnsTrue(r) == [r EXCEPT !.raised = FALSE, !.result = TRUE]

\* except Exception as e: print; return False
ingest_except(r) == [r EXCEPT !.raised = FALSE, !.result = FALSE]

ingest_qa_pair(question, answer, env, uuid) ==
    IF Falsy(question) \/ Falsy(answer)
    THEN [raised |-> FALSE, result |-> FALSE, embedCalls |-> 0,
          upsertCalls |-> 0, uuids |-> 0, points |-> <<>>]
    ELSE LET r == ingest_try(question, answer, env, uuid)
         IN  IF r.raised THEN ingest_except(r) ELSE r

IngestEnvs == [embedOK : BOOLEAN, upsertOK : BOOLEAN]

\* dummy_text of pre_warm_pipeline: a fixed non-empty string
DummyText == <<"w", "a", "r", "m">>

-----------------------------------------------------------------------------
(* The service: threads, requests, responses *)

Threads == {"t1", "t2"}
Main == "main"
Procs == Threads \cup {Main}

NoBody == [json |-> FALSE]
UserIds == {NoArg, Some(<<>>), Some(<<" ">>), Some(<<"u">>)}
SessionIds == {NoArg, Some(<<"s">>)}
Queries == {NoArg, Some(<<>>), Some(<<" ">>), Some(<<"q">>)}

\* request.json: no JSON body, or a JSON object with any of the three fields
Bodies ==
    {NoBody} \cup
    {[json |-> TRUE, user_id |-> u, session_id |-> s, query |-> q] :
        u \in UserIds, s \in SessionIds, q \in Queries}

ClearBodies == {b \in Bodies : b.json => b.query = NoArg}

\* The answers bot.query may return: "", "Hi." and
\* "This is a test. Another sentence! And one more?"
Answers ==
    { <<>>,
      <<"H", "i", ".">>,
      <<"T","h","i","s"," ","i","s"," ","a"," ","t","e","s","t","."," ",
        "A","n","o","t","h","e","r"," ","s","e","n","t","e","n","c","e","!"," ",
        "A","n","d"," ","o","n","e"," ","m","o","r","e","?">> }

NoReq == [route |-> "none", body |-> NoBody]
NoResp == [status |-> 0, kind |-> "none"]
NoFrame ==
    [bot |-> 0, chunks |-> <<>>, raised |-> FALSE, ctorFailed |-> FALSE,
     constructed |-> FALSE, asked |-> 0, encOK |-> FALSE,
     warmedAtEntry |-> FALSE, full_response |-> NoArg]

Event(type) == [type |-> type, content |-> <<>>]
ChunkEvent(chunk) == [type |-> "chunk", content |-> chunk]

Route(p) == req[p].route

globals == <<chatbot, is_warmed_up>>
counters == <<built, encodeCalls, genEmbedCalls, searchCalls, warmCalls,
              warmedBy>>

\* The validation of query() and query_stream(): the status the handler
\* answers with before doing anything else, 0 when the request passes.
\* request.json without a JSON body raises, or gives None and data.get raises:
\* both end in the handler's except clause.
ValidateQuery(body) ==
    IF ~body.json THEN 500
    ELSE IF Falsy(body.user_id) \/ Falsy(body.session_id) THEN 400
    ELSE IF Falsy(body.query) \/ Strip(body.query.v) = <<>> THEN 400
    ELSE 0

\* The validation of clear_session()
ValidateClear(body) ==
    IF ~body.json THEN 500
    ELSE IF Falsy(body.user_id) \/ Falsy(body.session_id) THEN 400
    ELSE 0

ErrorResp(status) == [status |-> status, kind |-> "json_error"]

\* StreamExcept with the generator carrying on after the error event, as if
\* the error were yielded inside the loop instead of ending the generator
StreamExcept_CarriesOn(t) ==
    /\ events' = [events EXCEPT ![t] = Append(@, Event("error"))]
    /\ pc' = [pc EXCEPT ![t] = "emit_chunk"]
    /\ UNCHANGED <<resp, server>>

\* except Exception of generate_sse_response: one error event, then the
\* generator returns
StreamExcept(t) ==
    /\ events' = [events EXCEPT ![t] = Append(@, Event("error"))]
    /\ pc' = [pc EXCEPT ![t] = "done"]
    /\ UNCHANGED <<resp, server>>

\* except Exception of query() and clear_session(): a 500 JSON error
HandlerExcept(t) ==
    /\ resp' = [resp EXCEPT ![t] = ErrorResp(500)]
    /\ pc' = [pc EXCEPT ![t] = "done"]
    /\ UNCHANGED <<events, server>>

\* __main__: nothing catches the exception, the process ends
MainExcept(p) ==
    /\ server' = "crashed"
    /\ pc' = [pc EXCEPT ![p] = "exited"]
    /\ UNCHANGED <<resp, events>>

\* An exception leaves the call p is in and reaches the caller's handler
Raise(p) ==
    CASE Route(p) = "query_stream" -> StreamExcept(p)
      [] Route(p) \in {"query", "clear"} -> HandlerExcept(p)
      [] OTHER -> MainExcept(p)

-----------------------------------------------------------------------------
(* Process start *)

\* python chatbot_service_sse.py: initialize_chatbot() runs before app.run
BootMain ==
    /\ server = "boot" /\ pc[Main] = "boot"
    /\ req' = [req EXCEPT ![Main] = [route |-> "startup", body |-> NoBody]]
    /\ pc' = [pc EXCEPT ![Main] = "init_check"]
    /\ UNCHANGED <<globals, server, resp, events, fr, requests, counters,
                   harness>>

\* the module is imported by a WSGI server: only the globals are set, the
\* handlers initialize the chatbot on first use
BootImport ==
    /\ server = "boot" /\ pc[Main] = "boot"
    /\ server' = "serving"
    /\ pc' = [pc EXCEPT ![Main] = "imported"]
    /\ UNCHANGED <<globals, req, resp, events, fr, requests, counters,
                   harness>>

-----------------------------------------------------------------------------
(* initialize_chatbot and pre_warm_pipeline *)

\* where pre_warm_pipeline returns to
AfterWarm(p) == IF Route(p) = "warm_test" THEN "idle" ELSE "init_return"

\* if chatbot is None
InitCheck(p) ==
    /\ pc[p] = "init_check"
    /\ pc' = [pc EXCEPT ![p] = IF chatbot = 0 THEN "construct"
                               ELSE "init_return"]
    /\ UNCHANGED <<globals, server, req, resp, events, fr, requests,
                   counters, harness>>

\* chatbot = RAGChatbot(): the constructor returns a new instance, or raises
\* and leaves the global as it was
Construct(p) ==
    /\ pc[p] = "construct"
    /\ \/ /\ built' = built + 1
          /\ chatbot' = built + 1
          /\ fr' = [fr EXCEPT ![p].constructed = TRUE]
          /\ pc' = [pc EXCEPT ![p] = "warm_check"]
          /\ UNCHANGED <<server, resp, events>>
       \/ /\ fr' = [fr EXCEPT ![p].ctorFailed = TRUE, ![p].raised = TRUE]
          /\ Raise(p)
          /\ UNCHANGED <<built, chatbot>>
    /\ UNCHANGED <<is_warmed_up, req, requests, encodeCalls, genEmbedCalls,
                   searchCalls, warmCalls, warmedBy, harness>>

\* WarmCheck without the is_warmed_up guard
WarmCheck_NoGuard(p) ==
    /\ pc[p] = "warm_check"
    /\ warmCalls' = warmCalls + 1
    /\ fr' = [fr EXCEPT ![p].warmedAtEntry = is_warmed_up, ![p].encOK = FALSE]
    /\ pc' = [pc EXCEPT ![p] = "warm_encode"]
    /\ UNCHANGED <<globals, server, req, resp, events, requests, built,
                   encodeCalls, genEmbedCalls, searchCalls, warmedBy, harness>>

\* pre_warm_pipeline: if is_warmed_up: return
WarmCheck(p) ==
    /\ pc[p] = "warm_check"
    /\ warmCalls' = warmCalls + 1
    /\ fr' = [fr EXCEPT ![p].warmedAtEntry = is_warmed_up, ![p].encOK = FALSE]
    /\ pc' = [pc EXCEPT ![p] = IF is_warmed_up THEN AfterWarm(p)
                               ELSE "warm_encode"]
    /\ UNCHANGED <<globals, server, req, resp, events, requests, built,
                   encodeCalls, genEmbedCalls, searchCalls, warmedBy, harness>>

\* bot.retriever.embedder.encode([dummy_text]): returns, or raises into the
\* except clause of pre_warm_pipeline, which logs and returns
WarmEncode(p) ==
    /\ pc[p] = "warm_encode"
    /\ encodeCalls' = encodeCalls + 1
    /\ \/ /\ fr' = [fr EXCEPT ![p].encOK = TRUE]
          /\ pc' = [pc EXCEPT ![p] = "warm_retrieve"]
       \/ /\ pc' = [pc EXCEPT ![p] = AfterWarm(p)]
          /\ UNCHANGED fr
    /\ UNCHANGED <<globals, server, req, resp, events, requests, built,
                   genEmbedCalls, searchCalls, warmCalls, warmedBy, harness>>

\* bot.retriever.retrieve(dummy_text); is_warmed_up = True. An exception of
\* retrieve would reach the except clause of pre_warm_pipeline.
WarmRetrieve(p) ==
    /\ pc[p] = "warm_retrieve"
    /\ \E env \in RetrieveEnvs :
          LET r == retrieve(DummyText, NoInt, NoFilter, DefaultTopK, env)
          IN  /\ genEmbedCalls' = genEmbedCalls + r.embedCalls
              /\ searchCalls' = searchCalls + r.searchCalls
              /\ warmedBy' = IF r.raised THEN warmedBy
                             ELSE [encodeOK |-> fr[p].encOK,
                                   searchOK |-> r.searchOK]
              /\ is_warmed_up' = IF r.raised THEN is_warmed_up ELSE TRUE
    /\ pc' = [pc EXCEPT ![p] = AfterWarm(p)]
    /\ UNCHANGED <<chatbot, server, req, resp, events, fr, requests, built,
                   encodeCalls, warmCalls, harness>>

\* return chatbot, to the caller of initialize_chatbot
InitReturn(p) ==
    /\ pc[p] = "init_return"
    /\ fr' = [fr EXCEPT ![p].bot = chatbot]
    /\ pc' = [pc EXCEPT ![p] =
                CASE Route(p) = "query" -> "bot_query"
                  [] Route(p) = "query_stream" -> "emit_start"
                  [] Route(p) = "clear" -> "bot_clear"
                  [] OTHER -> "app_run"]
    /\ server' = IF Route(p) = "startup" THEN "serving" ELSE server
    /\ UNCHANGED <<globals, req, resp, events, requests, counters, harness>>

-----------------------------------------------------------------------------
(* The HTTP handlers *)

Accepting(t) ==
    /\ server = "serving"
    /\ pc[t] = "idle"
    /\ requests < MaxRequests

\* health setting the warm flag back to false
health_ResetsWarm(t) ==
    /\ Accepting(t)
    /\ requests' = requests + 1
    /\ req' = [req EXCEPT ![t] = [route |-> "health", body |-> NoBody]]
    /\ resp' = [resp EXCEPT ![t] =
                  [status |-> 200, kind |-> "health",
                   chatbot_initialized |-> (chatbot # 0),
                   pipeline_warmed |-> FALSE]]
    /\ is_warmed_up' = FALSE
    /\ pc' = [pc EXCEPT ![t] = "health_warmed"]
    /\ UNCHANGED <<chatbot, server, events, fr, counters, harness>>

\* GET /health, up to 'chatbot_initialized': chatbot is not None. The two
\* globals are read one after the other, with no lock held.
health(t) ==
    /\ Accepting(t)
    /\ requests' = requests + 1
    /\ req' = [req EXCEPT ![t] = [route |-> "health", body |-> NoBody]]
    /\ resp' = [resp EXCEPT ![t] =
                  [status |-> 200, kind |-> "health",
                   chatbot_initialized |-> (chatbot # 0),
                   pipeline_warmed |-> FALSE]]
    /\ pc' = [pc EXCEPT ![t] = "health_warmed"]
    /\ UNCHANGED <<globals, server, events, fr, counters, harness>>

\* 'pipeline_warmed': is_warmed_up, and the response is returned
health_pipeline_warmed(t) ==
    /\ pc[t] = "health_warmed"
    /\ resp' = [resp EXCEPT ![t].pipeline_warmed = is_warmed_up]
    /\ pc' = [pc EXCEPT ![t] = "done"]
    /\ UNCHANGED <<globals, server, req, events, fr, requests, counters,
                   harness>>

\* POST /query, up to the call of initialize_chatbot
query(t) ==
    /\ Accepting(t)
    /\ requests' = requests + 1
    /\ \E body \in Bodies :
          /\ req' = [req EXCEPT ![t] = [route |-> "query", body |-> body]]
          /\ IF ValidateQuery(body) # 0
             THEN /\ resp' = [resp EXCEPT ![t] = ErrorResp(ValidateQuery(body))]
                  /\ pc' = [pc EXCEPT ![t] = "done"]
             ELSE /\ pc' = [pc EXCEPT ![t] = "init_check"]
                  /\ UNCHANGED resp
    /\ UNCHANGED <<globals, server, events, fr, counters, harness>>

\* POST /query-stream: a JSON error, or the 200 event-stream response whose
\* body is generate_sse_response, which starts with initialize_chatbot
query_stream(t) ==
    /\ Accepting(t)
    /\ requests' = requests + 1
    /\ \E body \in Bodies :
          /\ req' = [req EXCEPT ![t] =
                       [route |-> "query_stream", body |-> body]]
          /\ IF ValidateQuery(body) # 0
             THEN /\ resp' = [resp EXCEPT ![t] = ErrorResp(ValidateQuery(body))]
                  /\ pc' = [pc EXCEPT ![t] = "done"]
             ELSE /\ resp' = [resp EXCEPT ![t] =
                                [status |-> 200, kind |-> "stream"]]
                  /\ pc' = [pc EXCEPT ![t] = "init_check"]
    /\ UNCHANGED <<globals, server, events, fr, counters, harness>>

\* POST /clear, up to the call of initialize_chatbot
clear_session(t) ==
    /\ Accepting(t)
    /\ requests' = requests + 1
    /\ \E body \in ClearBodies :
          /\ req' = [req EXCEPT ![t] = [route |-> "clear", body |-> body]]
          /\ IF ValidateClear(body) # 0
             THEN /\ resp' = [resp EXCEPT ![t] = ErrorResp(ValidateClear(body))]
                  /\ pc' = [pc EXCEPT ![t] = "done"]
             ELSE /\ pc' = [pc EXCEPT ![t] = "init_check"]
                  /\ UNCHANGED resp
    /\ UNCHANGED <<globals, server, events, fr, counters, harness>>

\* EmitStart going on to the chunk loop without asking for the answer
EmitStart_SkipsQuery(t) ==
    /\ pc[t] = "emit_start"
    /\ events' = [events EXCEPT ![t] = Append(@, Event("start"))]
    /\ pc' = [pc EXCEPT ![t] = "emit_chunk"]
    /\ UNCHANGED <<globals, server, req, resp, fr, requests, counters,
                   harness>>

\* yield start
EmitStart(t) ==
    /\ pc[t] = "emit_start"
    /\ events' = [events EXCEPT ![t] = Append(@, Event("start"))]
    /\ pc' = [pc EXCEPT ![t] = "bot_query"]
    /\ UNCHANGED <<globals, server, req, resp, fr, requests, counters,
                   harness>>

\* bot.query(query_text, user_id, session_id) returns the answer or raises.
\* query() answers with it; generate_sse_response hands it to chunk_text.
BotQuery(t) ==
    /\ pc[t] = "bot_query"
    /\ \/ \E answer \in Answers :
            /\ fr' = [fr EXCEPT ![t].asked = @ + 1,
                                ![t].full_response =
                                    IF Route(t) = "query_stream"
                                    THEN Some(answer) ELSE NoArg,
                                ![t].chunks =
                                    IF Route(t) = "query_stream"
                                    THEN chunk_text(answer, DefaultChunkSize)
                                    ELSE <<>>]
            /\ IF Route(t) = "query_stream"
               THEN /\ pc' = [pc EXCEPT ![t] = "emit_chunk"]
                    /\ UNCHANGED resp
               ELSE /\ resp' = [resp EXCEPT ![t] =
                                  [status |-> 200, kind |-> "json",
                                   response |-> answer]]
                    /\ pc' = [pc EXCEPT ![t] = "done"]
            /\ UNCHANGED <<events, server>>
       \/ /\ fr' = [fr EXCEPT ![t].asked = @ + 1, ![t].raised = TRUE]
          /\ Raise(t)
    /\ UNCHANGED <<globals, req, requests, counters, harness>>

\* for chunk in chunk_text(...): yield chunk
EmitChunk(t) ==
    /\ pc[t] = "emit_chunk"
    /\ fr[t].chunks # <<>>
    /\ events' = [events EXCEPT ![t] = Append(@, ChunkEvent(Head(fr[t].chunks)))]
    /\ fr' = [fr EXCEPT ![t].chunks = Tail(@)]
    /\ UNCHANGED <<globals, server, pc, req, resp, requests, counters,
                   harness>>

\* yield done
EmitDone(t) ==
    /\ pc[t] = "emit_chunk"
    /\ fr[t].chunks = <<>>
    /\ events' = [events EXCEPT ![t] = Append(@, Event("done"))]
    /\ pc' = [pc EXCEPT ![t] = "done"]
    /\ UNCHANGED <<globals, server, req, resp, fr, requests, counters,
                   harness>>

\* bot.clear_session(user_id, session_id) returns or raises
BotClear(t) ==
    /\ pc[t] = "bot_clear"
    /\ \/ /\ resp' = [resp EXCEPT ![t] = [status |-> 200, kind |-> "json"]]
          /\ pc' = [pc EXCEPT ![t] = "done"]
          /\ UNCHANGED <<events, server, fr>>
       \/ /\ fr' = [fr EXCEPT ![t].raised = TRUE]
          /\ Raise(t)
    /\ UNCHANGED <<globals, req, requests, counters, harness>>

\* the response is delivered; the thread takes the next request
Reset(t) ==
    /\ pc[t] = "done"
    /\ pc' = [pc EXCEPT ![t] = "idle"]
    /\ req' = [req EXCEPT ![t] = NoReq]
    /\ resp' = [resp EXCEPT ![t] = NoResp]
    /\ events' = [events EXCEPT ![t] = <<>>]
    /\ fr' = [fr EXCEPT ![t] = NoFrame]
    /\ UNCHANGED <<globals, server, requests, counters, harness>>

-----------------------------------------------------------------------------
(* The service *)

NoHarness == [op |-> "none"]

Init ==
    /\ chatbot = 0
    /\ is_warmed_up = FALSE
    /\ server = "boot"
    /\ pc = [p \in Procs |-> IF p = Main THEN "boot" ELSE "idle"]
    /\ req = [p \in Procs |-> NoReq]
    /\ resp = [p \in Procs |-> NoResp]
    /\ events = [p \in Procs |-> <<>>]
    /\ fr = [p \in Procs |-> NoFrame]
    /\ requests = 0
    /\ built = 0
    /\ encodeCalls = 0
    /\ genEmbedCalls = 0
    /\ searchCalls = 0
    /\ warmCalls = 0
    /\ warmedBy = [encodeOK |-> FALSE, searchOK |-> FALSE]
    /\ harness = NoHarness

Next ==
    \/ BootMain
    \/ BootImport
    \/ \E p \in Procs :
          \/ InitCheck(p)
          \/ Construct(p)
          \/ WarmCheck(p)
          \/ WarmEncode(p)
          \/ WarmRetrieve(p)
          \/ InitReturn(p)
    \/ \E t \in Threads :
          \/ health(t)
          \/ health_pipeline_warmed(t)
          \/ query(t)
          \/ query_stream(t)
          \/ clear_session(t)
          \/ EmitStart(t)
          \/ BotQuery(t)
          \/ EmitChunk(t)
          \/ EmitDone(t)
          \/ BotClear(t)
          \/ Reset(t)

Spec == Init /\ [][Next]_vars

-----------------------------------------------------------------------------
(* RouteRules *)

COMPANY_INTERNSHIP == "COMPANY_INTERNSHIP"
EDUCATION_CODING == "EDUCATION_CODING"
INTERVIEW_PREPARATION == "INTERVIEW_PREPARATION"
GENERAL_EDUCATION == "GENERAL_EDUCATION"
UNKNOWN == "UNKNOWN"

\* self.rag_intents and self.external_intents of RouteRules.__init__
rag_intents == <<COMPANY_INTERNSHIP>>
external_intents ==
    <<EDUCATION_CODING, INTERVIEW_PREPARATION, GENERAL_EDUCATION>>

\* x in list
InList(x, list) == \E i \in 1..Len(list) : list[i] = x

should_use_rag(intent) == InList(intent, rag_intents)
should_use_external(intent) == InList(intent, external_intents)

\* The intents IntentRouter.classify_intent may return: the four categories
\* and the fallback.
Intents ==
    {COMPANY_INTERNSHIP, EDUCATION_CODING, INTERVIEW_PREPARATION,
     GENERAL_EDUCATION, UNKNOWN}

\* route_query(query), intent being classify_intent(query)
route_query(intent) ==
    LET use_rag == should_use_rag(intent)
        use_external == should_use_external(intent)
    IN  [intent |-> intent, use_rag |-> use_rag,
         use_external |-> use_external,
         pipeline |-> IF use_rag THEN "RAG" ELSE "EXTERNAL"]

get_pipeline_for_intent(intent) ==
    IF should_use_rag(intent) THEN "RAG"
    ELSE IF should_use_external(intent) THEN "EXTERNAL"
    ELSE "UNKNOWN"

-----------------------------------------------------------------------------
(* Unit-level drivers: one operation of the program is called on inputs    *)
(* drawn from bounded sets, the rest of the state stays as constructed.    *)

Quiet ==
    /\ chatbot = 0
    /\ is_warmed_up = FALSE
    /\ server = "test"
    /\ pc = [p \in Procs |-> "idle"]
    /\ req = [p \in Procs |-> NoReq]
    /\ resp = [p \in Procs |-> NoResp]
    /\ events = [p \in Procs |-> <<>>]
    /\ fr = [p \in Procs |-> NoFrame]
    /\ requests = 0
    /\ built = 0
    /\ encodeCalls = 0
    /\ genEmbedCalls = 0
    /\ searchCalls = 0
    /\ warmCalls = 0
    /\ warmedBy = [encodeOK |-> FALSE, searchOK |-> FALSE]

service == <<chatbot, is_warmed_up, server, pc, req, resp, events, fr,
             requests, built, encodeCalls, genEmbedCalls, searchCalls,
             warmCalls, warmedBy>>

(* chunk_text(text, chunk_size) on every text up to MaxLen characters *)

Alphabet == {"a", "b", ".", "?", " ", "|"}
Texts == UNION {[1..n -> Alphabet] : n \in 0..MaxLen}
Budgets == 1..MaxBudget

InitChunk ==
    /\ Quiet
    /\ harness \in [op : {"chunk_text"}, text : Texts, chunk_size : Budgets,
                    done : {FALSE}, out : {<<>>}]

CallChunkText ==
    /\ harness.op = "chunk_text"
    /\ ~harness.done
    /\ harness' = [harness EXCEPT
                     !.done = TRUE,
                     !.out = chunk_text(harness.text, harness.chunk_size)]
    /\ UNCHANGED service

SpecChunk == InitChunk /\ [][CallChunkText]_vars

(* RouteRules: route_query and get_pipeline_for_intent, called in any order *)

InitRoute ==
    /\ Quiet
    /\ harness = [op |-> "route", log |-> <<>>]

CallRouteQuery ==
    /\ harness.op = "route"
    /\ Len(harness.log) < MaxRouteCalls
    /\ \E intent \in Intents :
          harness' = [harness EXCEPT !.log =
              Append(@, [call |-> "route_query", intent |-> intent,
                         pipeline |-> route_query(intent).pipeline])]
    /\ UNCHANGED service

CallGetPipeline ==
    /\ harness.op = "route"
    /\ Len(harness.log) < MaxRouteCalls
    /\ \E intent \in Intents :
          harness' = [harness EXCEPT !.log =
              Append(@, [call |-> "get_pipeline_for_intent",
                         intent |-> intent,
                         pipeline |-> get_pipeline_for_intent(intent)])]
    /\ UNCHANGED service

SpecRoute == InitRoute /\ [][CallRouteQuery \/ CallGetPipeline]_vars

(* pre_warm_pipeline(bot), called MaxWarmCalls times in sequence *)

InitWarm ==
    /\ chatbot = 0
    /\ is_warmed_up = FALSE
    /\ server = "test"
    /\ pc = [p \in Procs |-> "idle"]
    /\ req = [p \in Procs |-> IF p = Main
                              THEN [route |-> "warm_test", body |-> NoBody]
                              ELSE NoReq]
    /\ resp = [p \in Procs |-> NoResp]
    /\ events = [p \in Procs |-> <<>>]
    /\ fr = [p \in Procs |-> NoFrame]
    /\ requests = 0
    /\ built = 1
    /\ encodeCalls = 0
    /\ genEmbedCalls = 0
    /\ searchCalls = 0
    /\ warmCalls = 0
    /\ warmedBy = [encodeOK |-> FALSE, searchOK |-> FALSE]
    /\ harness = [op |-> "warm", log |-> <<>>, running |-> FALSE,
                  before |-> [encode |-> 0, embed |-> 0, search |-> 0]]

\* the driver calls pre_warm_pipeline(bot)
CallWarm ==
    /\ harness.op = "warm"
    /\ ~harness.running
    /\ pc[Main] = "idle"
    /\ Len(harness.log) < MaxWarmCalls
    /\ harness' = [harness EXCEPT
                     !.running = TRUE,
                     !.before = [encode |-> encodeCalls,
                                 embed |-> genEmbedCalls,
                                 search |-> searchCalls]]
    /\ fr' = [fr EXCEPT ![Main] = [NoFrame EXCEPT !.bot = built]]
    /\ pc' = [pc EXCEPT ![Main] = "warm_check"]
    /\ UNCHANGED <<globals, server, req, resp, events, requests, counters>>

\* pre_warm_pipeline has returned: the driver notes what the call did
WarmReturned ==
    /\ harness.op = "warm"
    /\ harness.running
    /\ pc[Main] = "idle"
    /\ harness' = [harness EXCEPT
                     !.running = FALSE,
                     !.log = Append(@,
                        [warmedAtEntry |-> fr[Main].warmedAtEntry,
                         warmedAtReturn |-> is_warmed_up,
                         encode |-> encodeCalls - harness.before.encode,
                         embed |-> genEmbedCalls - harness.before.embed,
                         search |-> searchCalls - harness.before.search])]
    /\ UNCHANGED service

NextWarm ==
    \/ CallWarm
    \/ WarmCheck(Main)
    \/ WarmEncode(Main)
    \/ WarmRetrieve(Main)
    \/ WarmReturned

SpecWarm == InitWarm /\ [][NextWarm]_vars

(* Retriever.retrieve and Retriever.ingest_qa_pair on one Retriever, called
   up to MaxRetrieverCalls times in sequence *)

RetrieverQueries == {<<>>, <<"q">>}
TopKArgs == {NoInt} \cup {[some |-> TRUE, v |-> k] : k \in 0..MaxTopK}
Filters == {NoFilter, Some(<<>>),
            Some(<<[key |-> "company", value |-> "Google"]>>)}
QATexts == {NoArg, Some(<<>>), Some(<<"q">>)}

InitRetriever ==
    /\ Quiet
    /\ harness \in [op : {"retriever"}, self_top_k : {1, DefaultTopK},
                    calls : {0}, uuids : {0}, upserted : {<<>>},
                    last : {[call |-> "none"]}]

CallRetrieve ==
    /\ harness.op = "retriever"
    /\ harness.calls < MaxRetrieverCalls
    /\ \E text \in RetrieverQueries, top_k \in TopKArgs,
          filter_by \in Filters, env \in RetrieveEnvs :
          harness' = [harness EXCEPT
              !.calls = @ + 1,
              !.last = [call |-> "retrieve", query |-> text,
                        top_k |-> top_k, filter_by |-> filter_by,
                        env |-> env,
                        out |-> retrieve(text, top_k, filter_by,
                                         harness.self_top_k, env)]]
    /\ UNCHANGED service

CallIngest ==
    /\ harness.op = "retriever"
    /\ harness.calls < MaxRetrieverCalls
    /\ \E question \in QATexts, answer \in QATexts, env \in IngestEnvs :
          LET out == ingest_qa_pair(question, answer, env,
                                    harness.uuids + 1)
          IN  harness' = [harness EXCEPT
                  !.calls = @ + 1,
                  !.uuids = @ + out.uuids,
                  !.upserted = @ \o out.points,
                  !.last = [call |-> "ingest", question |-> question,
                            answer |-> answer, env |-> env,
                            before |-> harness.upserted, out |-> out]]
    /\ UNCHANGED service

SpecRetriever == InitRetriever /\ [][CallRetrieve \/ CallIngest]_vars

-----------------------------------------------------------------------------
(* Properties *)

\* the positions of events[t] whose type is in types
Positions(t, types) == {i \in 1..Len(events[t]) : events[t][i].type \in types}

Streaming(t) == Route(t) = "query_stream" /\ resp[t].kind = "stream"
StreamEnded(t) == Streaming(t) /\ pc[t] = "done"

\* C1: every streamed request emits exactly one start event, and it is the
\* first event of the stream, also when the chatbot cannot be constructed.
C1_StartIsFirst ==
    \A t \in Threads :
        Streaming(t) =>
            /\ Cardinality(Positions(t, {"start"})) <= 1
            /\ events[t] # <<>> => events[t][1].type = "start"
            /\ pc[t] = "done" => Cardinality(Positions(t, {"start"})) = 1

\* C2: a streamed request has at most one terminal event (done or error),
\* nothing follows it, and a request that has ended has exactly one: error
\* when a step raised, done otherwise.
C2_OneTerminalEvent ==
    \A t \in Threads :
        Streaming(t) =>
            LET terminal == Positions(t, {"done", "error"})
            IN  /\ Cardinality(terminal) <= 1
                /\ \A i \in terminal : i = Len(events[t])
                /\ terminal # {} => pc[t] = "done"
                /\ pc[t] = "done" =>
                      /\ Cardinality(terminal) = 1
                      /\ events[t][Len(events[t])].type =
                            IF fr[t].raised THEN "error" ELSE "done"

\* a stream that ended with an error after its start, beside one that ended
\* with done after a chunk
C2_Witness ==
    \E t, u \in Threads :
        /\ StreamEnded(t) /\ fr[t].raised
        /\ Len(events[t]) = 2 /\ events[t][2].type = "error"
        /\ StreamEnded(u) /\ ~fr[u].raised
        /\ Len(events[u]) >= 3 /\ events[u][Len(events[u])].type = "done"

\* C3: the chatbot is constructed at most once, whatever the interleaving of
\* the first requests.
C3_ConstructedOnce == built <= 1

\* str.join of the chunks
RECURSIVE Concat(_)
Concat(chunks) ==
    IF chunks = <<>> THEN <<>> ELSE Head(chunks) \o Concat(Tail(chunks))

\* whitespace normalization: runs of whitespace become one space, leading
\* and trailing whitespace goes
RECURSIVE Squeeze(_)
Squeeze(s) ==
    IF Len(s) < 2 THEN s
    ELSE IF IsSpace(s[1]) /\ IsSpace(s[2]) THEN Squeeze(Tail(s))
    ELSE <<Head(s)>> \o Squeeze(Tail(s))

Collapse(s) == Squeeze(Strip(s))

ChunkDone == harness.op = "chunk_text" /\ harness.done

\* C4: the concatenation of the chunks, whitespace-normalized, is the
\* whitespace-normalized answer.
C4_ChunksReconstruct ==
    ChunkDone => Collapse(Concat(harness.out)) = Collapse(harness.text)

\* the stripped non-empty pieces chunk_text treats as sentences
SentencesOf(text) ==
    {Strip(Sentences(text)[i]) : i \in 1..Len(Sentences(text))} \ {<<>>}

\* C5: no chunk is longer than the budget, except a chunk that is a single
\* sentence longer than the budget.
C5_ChunkWithinBudget ==
    ChunkDone =>
        \A i \in 1..Len(harness.out) :
            \/ Len(harness.out[i]) <= harness.chunk_size
            \/ /\ Strip(harness.out[i]) \in SentencesOf(harness.text)
               /\ Len(Strip(harness.out[i])) > harness.chunk_size

\* C6: is_warmed_up is true only if the embedding call and the vector search
\* of the warm-up have each succeeded.
C6_WarmOnlyAfterBoth ==
    is_warmed_up => warmedBy.encodeOK /\ warmedBy.searchOK

WarmLog == IF harness.op = "warm" THEN harness.log ELSE <<>>

\* C7, as claimed: two calls of pre_warm_pipeline in sequence perform the
\* embedding call and the vector search at most once each.
C7_AtMostOnceEach ==
    Len(WarmLog) >= 2 =>
        /\ WarmLog[1].encode + WarmLog[2].encode <= 1
        /\ WarmLog[1].search + WarmLog[2].search <= 1

\* C7, amended: a call of pre_warm_pipeline made after a call that returned
\* with is_warmed_up set performs no embedding call and no vector search,
\* and leaves is_warmed_up set; a call entered with is_warmed_up false makes
\* the embedding call (once) again, and the vector search at most once.
C7_NoCallsOnceWarmed ==
    /\ \A i, j \in 1..Len(WarmLog) :
          (i < j /\ WarmLog[i].warmedAtReturn) =>
              /\ WarmLog[j].warmedAtEntry
              /\ WarmLog[j].encode = 0
              /\ WarmLog[j].embed = 0
              /\ WarmLog[j].search = 0
              /\ WarmLog[j].warmedAtReturn
    /\ \A j \in 1..Len(WarmLog) :
          ~WarmLog[j].warmedAtEntry =>
              /\ WarmLog[j].encode = 1
              /\ WarmLog[j].embed <= 1
              /\ WarmLog[j].search <= 1

\* a first call that warmed the pipeline with all three calls made, and a
\* second call after it
C7_Witness ==
    /\ Len(WarmLog) >= 2
    /\ WarmLog[1].warmedAtReturn
    /\ WarmLog[1].encode = 1 /\ WarmLog[1].search = 1
    /\ WarmLog[2].warmedAtEntry

\* the pipeline the routing decision is said to give
Decision(intent) ==
    IF InList(intent, rag_intents) THEN "RAG"
    ELSE IF InList(intent, external_intents) THEN "EXTERNAL"
    ELSE "UNKNOWN"

\* C8: route_query and get_pipeline_for_intent both report RAG exactly for
\* the RAG intents, EXTERNAL exactly for the EXTERNAL intents and UNKNOWN for
\* every other intent, and the two sets are disjoint.
C8_PipelineIsDecision ==
    /\ \A i \in 1..Len(rag_intents) : ~InList(rag_intents[i], external_intents)
    /\ harness.op = "route" =>
          \A i \in 1..Len(harness.log) :
              harness.log[i].pipeline = Decision(harness.log[i].intent)

\* missing or blank
Blank(x) == IF x.some THEN Strip(x.v) = <<>> ELSE TRUE

MissingFields(body) ==
    IF body.json
    THEN Blank(body.user_id) \/ Blank(body.session_id) \/ Blank(body.query)
    ELSE TRUE

\* C9: a /query or /query-stream request with user_id, session_id or query
\* missing or blank, or with no JSON body, is answered 400 with a JSON error;
\* it constructs nothing, never asks the Orchestrator and emits no event.
C9_MissingFieldsGive400 ==
    \A t \in Threads :
        (Route(t) \in {"query", "query_stream"} /\ MissingFields(req[t].body))
            => /\ fr[t].asked = 0
               /\ ~fr[t].constructed
               /\ events[t] = <<>>
               /\ pc[t] = "done"
               /\ resp[t] = ErrorResp(400)

\* C10: a request whose construction of the chatbot failed is answered 500
\* and has not set the singleton.
C10_FailedConstructionGives500 ==
    \A t \in Threads :
        (pc[t] = "done" /\ fr[t].ctorFailed)
            => /\ resp[t].status = 500
               /\ ~fr[t].constructed

RetrieveCalled == harness.op = "retriever" /\ harness.last.call = "retrieve"

RetrieveFailed(env) == ~env.procOK \/ ~env.embedOK \/ ~env.searchOK

\* C11: retrieve never raises. For every query, top_k and filter, when query
\* processing, embedding or the vector search fails the call returns the
\* empty sequence, and an empty query returns the empty sequence without a
\* call of the embedding function or of the search service.
C11_RetrieveNeverRaises ==
    RetrieveCalled =>
        LET c == harness.last
        IN  /\ ~c.out.raised
            /\ (c.query # <<>> /\ RetrieveFailed(c.env))
                  => c.out.docs = <<>>
            /\ c.query = <<>>
                  => /\ c.out.docs = <<>>
                     /\ c.out.embedCalls = 0
                     /\ c.out.searchCalls = 0

\* a filtered search with an explicit top_k fails in the search service and
\* the caller gets the empty sequence
C11_Witness ==
    /\ RetrieveCalled
    /\ harness.last.query # <<>>
    /\ harness.last.top_k.some
    /\ harness.last.filter_by.some
    /\ harness.last.env.procOK
    /\ harness.last.env.embedOK
    /\ ~harness.last.env.searchOK
    /\ harness.last.out.searchCalls = 1
    /\ ~harness.last.out.raised
    /\ harness.last.out.docs = <<>>

IngestCalled == harness.op = "retriever" /\ harness.last.call = "ingest"

\* C12: ingest_qa_pair never raises and returns true only when the upsert of
\* exactly one new point succeeded. It returns false when the question or the
\* answer is missing (no embedding, no upsert), when embedding fails (no
\* upsert) and when the upsert fails.
C12_IngestTrueOnlyOnUpsert ==
    IngestCalled =>
        LET c == harness.last
            missing == Falsy(c.question) \/ Falsy(c.answer)
        IN  /\ ~c.out.raised
            /\ c.out.result
                  => /\ c.out.upsertCalls = 1
                     /\ c.env.upsertOK
                     /\ Len(c.out.points) = 1
                     /\ harness.upserted = c.before \o c.out.points
                     /\ \A i \in 1..Len(c.before) :
                           c.before[i].id # c.out.points[1].id
            /\ missing
                  => /\ ~c.out.result
                     /\ c.out.embedCalls = 0
                     /\ c.out.upsertCalls = 0
            /\ (~missing /\ ~c.env.embedOK)
                  => /\ ~c.out.result
                     /\ c.out.upsertCalls = 0
            /\ (~missing /\ ~c.env.upsertOK) => ~c.out.result
            /\ ~c.out.result => harness.upserted = c.before

\* after a first pair was stored, a call whose upsert fails returns false and
\* leaves the collection as it was
C12_Witness ==
    /\ IngestCalled
    /\ Len(harness.last.before) = 1
    /\ ~harness.last.out.result
    /\ ~harness.last.out.raised
    /\ harness.last.env.embedOK
    /\ ~harness.last.env.upsertOK
    /\ harness.last.out.upsertCalls = 1
    /\ harness.upserted = harness.last.before

\* the limit asked for by the last retrieve call
AskedK == IF harness.last.top_k.some THEN harness.last.top_k.v
          ELSE harness.self_top_k

Descending(docs) ==
    \A i \in 1..Len(docs), j \in 1..Len(docs) :
        i < j => docs[i].similarity_score >= docs[j].similarity_score

\* What retrieve does on a non-empty query whose processing and embedding
\* succeed: one search, with the limit asked for, on the keyword text when it
\* is non-empty and on the normalized text otherwise; when the search
\* succeeds too, one document per hit in the order of the hits.
OneSearchOneDocPerHit ==
    LET c == harness.last
        hits == c.env.points[AskedK]
    IN  /\ c.out.embedCalls = 1
        /\ c.out.searchCalls = 1
        /\ c.out.limit = Some(AskedK)
        /\ c.out.search_query = IF c.env.keyword # <<>> THEN c.env.keyword
                                ELSE c.env.normalized
        /\ c.env.searchOK
              => /\ Len(c.out.docs) = Len(hits)
                 /\ \A i \in 1..Len(hits) :
                       /\ c.out.docs[i].similarity_score = hits[i].score
                       /\ c.out.docs[i].metadata = hits[i].payload
                       /\ c.out.docs[i].content =
                              IF hits[i].content.some THEN hits[i].content.v
                              ELSE <<>>
                 /\ Descending(c.out.docs)

Searched ==
    /\ RetrieveCalled
    /\ harness.last.query # <<>>
    /\ harness.last.env.procOK
    /\ harness.last.env.embedOK

\* C14 as stated: the limit k of the one search is at least 1 and the result
\* is no longer than the configured top_k.
C14_WithinConfiguredTopK ==
    Searched =>
        /\ OneSearchOneDocPerHit
        /\ AskedK >= 1
        /\ Len(harness.last.out.docs) <= harness.self_top_k

\* C14: retrieve issues one search with limit k, where k is the top_k argument
\* when given, whatever its value, and the configured default otherwise, on
\* the keyword text when it is non-empty and on the normalized text
\* otherwise; it returns exactly one document per hit in the order of the
\* hits, so the result has length at most k and is ranked by
\* similarity_score descending. k is at least 1 when the argument is absent
\* or at least 1.
C14_OneDocPerHitWithinK ==
    Searched =>
        /\ OneSearchOneDocPerHit
        /\ Len(harness.last.out.docs) <= AskedK
        /\ (~harness.last.top_k.some \/ harness.last.top_k.v >= 1)
              => AskedK >= 1

\* a top_k argument above the configured value: the search is issued on the
\* keyword text with that limit and both stored points come back, best first
C14_Witness ==
    /\ Searched
    /\ harness.last.env.searchOK
    /\ harness.last.env.keyword # <<>>
    /\ harness.last.top_k.some
    /\ harness.last.top_k.v > harness.self_top_k
    /\ harness.last.out.limit = harness.last.top_k
    /\ Len(harness.last.out.docs) = 2
    /\ harness.last.out.docs[1].similarity_score >
           harness.last.out.docs[2].similarity_score

\* the chunk events of a stream, in order, as the texts they carry
RECURSIVE ChunkContents(_)
ChunkContents(evs) ==
    IF evs = <<>> THEN <<>>
    ELSE IF Head(evs).type = "chunk"
         THEN <<Head(evs).content>> \o ChunkContents(Tail(evs))
         ELSE ChunkContents(Tail(evs))

Asked(t) == fr[t].asked

\* chunk_text(full_response, 30) for every answer the Orchestrator may give
AnswerChunks == [a \in Answers |-> chunk_text(a, DefaultChunkSize)]

HealthStep(t) == req'[t].route = "health" /\ pc'[t] # pc[t]

\* C15: in every reachable state, under any interleaving of requests,
\* is_warmed_up is true only when the chatbot singleton is set; is_warmed_up
\* once true is never reset to false; and GET /health changes neither: it
\* never constructs the singleton nor runs the warm-up.
C15_WarmedImpliesInitialized ==
    /\ [](is_warmed_up => chatbot # 0)
    /\ [](\A t \in Threads :
             Route(t) = "health" =>
                 /\ pc[t] \in {"health_warmed", "done"}
                 /\ fr[t] = NoFrame)
    /\ [][/\ is_warmed_up => is_warmed_up'
          /\ \A t \in Threads :
                HealthStep(t) =>
                    UNCHANGED <<chatbot, is_warmed_up, built, warmCalls,
                                encodeCalls, genEmbedCalls, searchCalls>>]_vars

\* the pipeline is warmed, the singleton is set and a health check has
\* reported both
C15_Witness ==
    /\ is_warmed_up
    /\ chatbot # 0
    /\ \E t \in Threads :
          /\ Route(t) = "health"
          /\ pc[t] = "done"
          /\ resp[t].pipeline_warmed
          /\ resp[t].chatbot_initialized

=============================================================================
